---- MODULE Spec2Model ----
(***************************************************************************)
(* Model of package ex (src/ex.go): ConstError identities, ExtraError      *)
(* nodes (err, cause) allocated on a heap, the constructors New, From,     *)
(* Unexpected, Because, Reason and the read operations Cause, Error,       *)
(* String, Unwrap, Is, Test, Must, MustDo.                                 *)
(*                                                                         *)
(* An error value is a record [k, t, i]:                                   *)
(*   k = "nil"    the nil error interface                                  *)
(*   k = "const"  ConstError(t), compared by its text                      *)
(*   k = "std"    an external error made by errors.New(t): no Unwrap, no   *)
(*                Is, compared by pointer (one pointer per text here)      *)
(*   k = "node"   the pointer to heap[i], a *ExtraError                    *)
(*   k = "wrap"   an external error whose Unwrap() returns the pointer to  *)
(*                heap[i], as fmt.Errorf("wrap: %w", node) makes           *)
(* A text is a sequence of string pieces; concatenation is \o.             *)
(***************************************************************************)
EXTENDS Naturals, Sequences, FiniteSets

VARIABLES heap, last

vars == <<heap, last>>

\* Largest number of ExtraError nodes allocated in one run.
MaxNodes == 2

\* Texts the callers pass to New, Reason and ConstError(...).
Texts == {"a"}

\* Texts of the external errors made by errors.New.
StdTexts == {"io"}

\* Values of the type parameter T handed to Must.
MustValues == {"v", "w"}

Nil == [k |-> "nil", t |-> "", i |-> 0]

ConstError(text) == [k |-> "const", t |-> text, i |-> 0]

StdError(text) == [k |-> "std", t |-> text, i |-> 0]

NodeV(i) == [k |-> "node", t |-> "", i |-> i]

WrapV(i) == [k |-> "wrap", t |-> "", i |-> i]

\* An external error whose dynamic type is not comparable: a slice type with
\* an Error method, no Unwrap and no Is.
SliceError == [k |-> "slice", t |-> "fields", i |-> 0]

\* reflect's Comparable of the dynamic type of an error value.
Comparable(v) == v.k # "slice"

ErrUnexpected == ConstError("unexpected")

ExtraError(err, cause) == [err |-> err, cause |-> cause]

\* The identities and the plain external errors: errors with no Unwrap.
Identities == {ConstError(t) : t \in Texts} \cup {ErrUnexpected}

Leaves == Identities \cup {StdError(t) : t \in StdTexts}

\* Every error value a caller can hold while the heap is h.
Values(h) ==
    {Nil} \cup Leaves \cup {NodeV(i) : i \in 1..Len(h)} \cup {WrapV(i) : i \in 1..Len(h)}

(***************************************************************************)
(* The standard library's chain walks, as the package uses them.           *)
(***************************************************************************)

\* Whether the value has an Unwrap() error method.
HasUnwrap(v) == v.k \in {"node", "wrap"}

\* A variant of Unwrap that exposes the cause of a node.
UnwrapCause(h, v) ==
    IF v.k = "node" THEN h[v.i].cause
    ELSE IF v.k = "wrap" THEN NodeV(v.i)
    ELSE Nil

\* ExtraError.Unwrap returns err; the external wrapper returns its node.
Unwrap(h, v) ==
    IF v.k = "node" THEN h[v.i].err
    ELSE IF v.k = "wrap" THEN NodeV(v.i)
    ELSE Nil

\* A variant of errors.As that is a plain type assertion: no Unwrap walk.
AsExtraTypeAssert(h, v) == IF v.k = "node" THEN v.i ELSE 0

RECURSIVE AsExtra(_, _)
\* errors.As(err, &xer) with xer a *ExtraError: the index of the first node
\* on err's Unwrap chain, 0 when there is none.
AsExtra(h, v) ==
    IF v = Nil THEN 0
    ELSE IF v.k = "node" THEN v.i
    ELSE IF HasUnwrap(v) THEN AsExtra(h, Unwrap(h, v))
    ELSE 0

RECURSIVE IsLoop(_, _, _)
RECURSIVE ExtraIs(_, _, _)

\* errors.Is(err, target).
ErrorsIs(h, err, target) ==
    IF err = Nil \/ target = Nil THEN err = target
    ELSE IsLoop(h, err, target)

\* A variant of the loop of errors.Is that compares targets of any type.
IsLoopAnyTarget(h, err, target) ==
    \/ err = target
    \/ err.k = "node" /\ ExtraIs(h, err.i, target)
    \/ /\ HasUnwrap(err)
       /\ Unwrap(h, err) # Nil
       /\ IsLoop(h, Unwrap(h, err), target)

\* The loop of errors.Is: == when the target's type is comparable, then the
\* Is method, then Unwrap.
IsLoop(h, err, target) ==
    \/ Comparable(target) /\ err = target
    \/ err.k = "node" /\ ExtraIs(h, err.i, target)
    \/ /\ HasUnwrap(err)
       /\ Unwrap(h, err) # Nil
       /\ IsLoop(h, Unwrap(h, err), target)

\* A variant of Is that matches err only and never looks at cause.
ExtraIsSelfOnly(h, i, target) == ErrorsIs(h, h[i].err, target)

\* (*ExtraError).Is of heap[i].
ExtraIs(h, i, target) ==
    \/ ErrorsIs(h, h[i].err, target)
    \/ h[i].cause # Nil /\ ErrorsIs(h, h[i].cause, target)

RECURSIVE Cause(_, _)

\* A variant of Cause that stops after one link: the immediate cause.
CauseOneStep(h, err) ==
    IF err = Nil THEN Nil
    ELSE LET xer == AsExtra(h, err) IN
         IF xer = 0 THEN err
         ELSE IF h[xer].cause = Nil THEN h[xer].err
         ELSE h[xer].cause

\* Cause(err): the loop, one unfolding per iteration.
Cause(h, err) ==
    IF err = Nil THEN Nil
    ELSE LET xer == AsExtra(h, err) IN
         IF xer = 0 THEN err
         ELSE IF h[xer].cause = Nil THEN h[xer].err
         ELSE Cause(h, h[xer].cause)

RECURSIVE ErrText(_, _)

\* A variant of Error that renders the immediate cause, not the root cause.
ExtraErrorTextImmediate(h, i) ==
    IF h[i].err = Nil THEN <<>>
    ELSE LET text == ErrText(h, h[i].err)
             cause == h[i].cause
         IN  IF cause # Nil
             THEN text \o <<" (">> \o ErrText(h, cause) \o <<")">>
             ELSE text

\* (*ExtraError).Error of heap[i].
ExtraErrorText(h, i) ==
    IF h[i].err = Nil THEN <<>>
    ELSE LET text == ErrText(h, h[i].err)
             cause == Cause(h, h[i].cause)
         IN  IF cause # Nil
             THEN text \o <<" (">> \o ErrText(h, cause) \o <<")">>
             ELSE text

\* err.Error() of any non-nil error value: ConstError.Error is the text, the
\* external wrapper prefixes the text of the node it wraps.
ErrText(h, v) ==
    IF v.k \in {"const", "std", "slice"} THEN <<v.t>>
    ELSE IF v.k = "wrap" THEN <<"wrap: ">> \o ErrText(h, NodeV(v.i))
    ELSE IF v.k = "node" THEN ExtraErrorText(h, v.i)
    ELSE <<>>

\* A variant of String whose "cause" member is the root cause alone.
ExtraErrorStringRoot(h, i) ==
    (IF h[i].err # Nil THEN {<<"error", ErrText(h, h[i].err)>>} ELSE {})
    \cup (IF h[i].cause # Nil THEN {<<"cause", ErrText(h, Cause(h, h[i].cause))>>} ELSE {})

\* (*ExtraError).String of heap[i]: the JSON object as its set of
\* <<key, value>> members.
ExtraErrorString(h, i) ==
    (IF h[i].err # Nil THEN {<<"error", ErrText(h, h[i].err)>>} ELSE {})
    \cup (IF h[i].cause # Nil THEN {<<"cause", ErrText(h, h[i].cause)>>} ELSE {})

(***************************************************************************)
(* Constructors: each returns the heap after the call and the result.      *)
(***************************************************************************)

Alloc(h, err, cause) ==
    [heap |-> Append(h, ExtraError(err, cause)), out |-> NodeV(Len(h) + 1)]

New(h, text) == Alloc(h, ConstError(text), Nil)

\* A variant of From that hands back the node it was given, not a copy.
FromSameInstance(h, other) ==
    LET xer == AsExtra(h, other) IN
    IF xer # 0 THEN [heap |-> h, out |-> NodeV(xer)]
    ELSE Alloc(h, other, Nil)

\* A variant of From that attaches a foreign error as the cause of
\* ErrUnexpected instead of making it the self.
FromAsCause(h, other) ==
    LET xer == AsExtra(h, other) IN
    IF xer # 0 THEN Alloc(h, h[xer].err, h[xer].cause)
    ELSE Alloc(h, ErrUnexpected, other)

\* A variant of From that nests whatever it is given as the self.
FromNests(h, other) == Alloc(h, other, Nil)

From(h, other) ==
    LET xer == AsExtra(h, other) IN
    IF xer # 0 THEN Alloc(h, h[xer].err, h[xer].cause)
    ELSE Alloc(h, other, Nil)

\* A variant of Unexpected with the later variant's policy: nil for nil.
UnexpectedNilForNil(h, cause) ==
    IF cause = Nil THEN [heap |-> h, out |-> Nil] ELSE Alloc(h, ErrUnexpected, cause)

Unexpected(h, cause) == Alloc(h, ErrUnexpected, cause)

\* A variant of Because whose node is its own cause.
ConstBecauseOfItself(h, c, cause) == Alloc(h, c, NodeV(Len(h) + 1))

ConstBecause(h, c, cause) == Alloc(h, c, cause)

ConstReason(h, c, text) == Alloc(h, c, ConstError(text))

\* A variant of Because that overwrites the receiver's cause and returns it.
ExtraBecauseInPlace(h, e, cause) ==
    [heap |-> [h EXCEPT ![e].cause = cause], out |-> NodeV(e)]

\* A variant of Because that keeps the receiver's cause when given nil.
ExtraBecauseKeepsCause(h, e, cause) ==
    Alloc(h, h[e].err, IF cause = Nil THEN h[e].cause ELSE cause)

ExtraBecause(h, e, cause) == Alloc(h, h[e].err, cause)

\* A variant of Reason that makes the text the self and keeps the cause.
ExtraReasonAsSelf(h, e, text) == Alloc(h, ConstError(text), h[e].cause)

ExtraReason(h, e, text) == Alloc(h, h[e].err, ConstError(text))

\* A variant of Test that returns the root cause in place of the cause.
TestRootCause(h, err) ==
    LET xer == AsExtra(h, err) IN
    IF xer = 0 THEN [panic |-> "invalid error type", out |-> Nil, out2 |-> Nil]
    ELSE [panic |-> "", out |-> h[xer].err, out2 |-> Cause(h, h[xer].cause)]

\* A variant of Test with the later variant's policy: (err, nil), no panic.
TestGraceful(h, err) ==
    LET xer == AsExtra(h, err) IN
    IF xer = 0 THEN [panic |-> "", out |-> err, out2 |-> Nil]
    ELSE [panic |-> "", out |-> h[xer].err, out2 |-> h[xer].cause]

\* Test(err): the pair, or the panic with the fixed string.
Test(h, err) ==
    LET xer == AsExtra(h, err) IN
    IF xer = 0 THEN [panic |-> "invalid error type", out |-> Nil, out2 |-> Nil]
    ELSE [panic |-> "", out |-> h[xer].err, out2 |-> h[xer].cause]

\* A variant of Must that panics with err itself, not with its root cause.
MustPanicsWithErr(h, t, err) ==
    IF err # Nil THEN [panic |-> "payload", out |-> err, ret |-> ""]
    ELSE [panic |-> "", out |-> Nil, ret |-> t]

\* Must(t, err) and MustDo(err): a normal return (of t, field ret), or the
\* panic whose payload (field out) is Cause(err).
Must(h, t, err) ==
    IF err # Nil THEN [panic |-> "payload", out |-> Cause(h, err), ret |-> ""]
    ELSE [panic |-> "", out |-> Nil, ret |-> t]

MustDo(h, err) ==
    IF err # Nil THEN [panic |-> "payload", out |-> Cause(h, err)]
    ELSE [panic |-> "", out |-> Nil]

(***************************************************************************)
(* The state machine: any sequence of public operations.                   *)
(***************************************************************************)

NoCall ==
    [op |-> "init", arg |-> Nil, tgt |-> Nil, txt |-> "", out |-> Nil, out2 |-> Nil,
     text |-> <<>>, json |-> {}, is |-> FALSE, isM |-> FALSE, panic |-> "", ret |-> "",
     cur |-> Nil, walk |-> <<>>, stack |-> <<>>]

Init ==
    /\ heap = <<>>
    /\ last = NoCall

Built(name, r, a, s) ==
    /\ heap' = r.heap
    /\ last' = [NoCall EXCEPT !.op = name, !.arg = a, !.txt = s, !.out = r.out]

DoNew ==
    \E text \in Texts :
        /\ Len(heap) < MaxNodes
        /\ Built("New", New(heap, text), Nil, text)

DoFrom ==
    \E other \in Values(heap) :
        /\ Len(heap) < MaxNodes
        /\ Built("From", From(heap, other), other, "")

DoUnexpected ==
    \E cause \in Values(heap) :
        /\ Len(heap) < MaxNodes
        /\ Built("Unexpected", Unexpected(heap, cause), cause, "")

DoConstBecause ==
    \E c \in Identities, cause \in Values(heap) :
        /\ Len(heap) < MaxNodes
        /\ heap' = ConstBecause(heap, c, cause).heap
        /\ last' = [NoCall EXCEPT !.op = "ConstBecause", !.arg = c, !.tgt = cause,
                                  !.out = ConstBecause(heap, c, cause).out]

DoConstReason ==
    \E c \in Identities, text \in Texts :
        /\ Len(heap) < MaxNodes
        /\ Built("ConstReason", ConstReason(heap, c, text), c, text)

DoExtraBecause ==
    \E e \in 1..Len(heap), cause \in Values(heap) :
        /\ Len(heap) < MaxNodes
        /\ heap' = ExtraBecause(heap, e, cause).heap
        /\ last' = [NoCall EXCEPT !.op = "ExtraBecause", !.arg = NodeV(e), !.tgt = cause,
                                  !.out = ExtraBecause(heap, e, cause).out]

DoExtraReason ==
    \E e \in 1..Len(heap), text \in Texts :
        /\ Len(heap) < MaxNodes
        /\ Built("ExtraReason", ExtraReason(heap, e, text), NodeV(e), text)

DoCause ==
    \E err \in Values(heap) :
        /\ last' = [NoCall EXCEPT !.op = "Cause", !.arg = err, !.out = Cause(heap, err)]
        /\ UNCHANGED heap

DoError ==
    \E e \in 1..Len(heap) :
        /\ last' = [NoCall EXCEPT !.op = "Error", !.arg = NodeV(e),
                                  !.text = ExtraErrorText(heap, e)]
        /\ UNCHANGED heap

DoIs ==
    \E e \in 1..Len(heap), target \in Leaves :
        /\ last' = [NoCall EXCEPT !.op = "Is", !.arg = NodeV(e), !.tgt = target,
                                  !.is = ErrorsIs(heap, NodeV(e), target),
                                  !.isM = ExtraIs(heap, e, target)]
        /\ UNCHANGED heap

DoTest ==
    \E err \in Values(heap) :
        /\ last' = [NoCall EXCEPT !.op = "Test", !.arg = err,
                                  !.out = Test(heap, err).out,
                                  !.out2 = Test(heap, err).out2,
                                  !.panic = Test(heap, err).panic]
        /\ UNCHANGED heap

DoString ==
    \E e \in 1..Len(heap) :
        /\ last' = [NoCall EXCEPT !.op = "String", !.arg = NodeV(e),
                                  !.json = ExtraErrorString(heap, e)]
        /\ UNCHANGED heap

DoUnwrap ==
    \E e \in 1..Len(heap) :
        /\ last' = [NoCall EXCEPT !.op = "Unwrap", !.arg = NodeV(e),
                                  !.out = Unwrap(heap, NodeV(e))]
        /\ UNCHANGED heap

\* The value t matters on the normal return only: with a non-nil err Must
\* panics before using it, and one value stands for all.
DoMust ==
    \E err \in Values(heap) :
      \E t \in (IF err = Nil THEN MustValues ELSE {"v"}) :
        LET r == Must(heap, t, err) IN
        /\ last' = [NoCall EXCEPT !.op = "Must", !.arg = err, !.txt = t,
                                  !.out = r.out, !.ret = r.ret, !.panic = r.panic]
        /\ UNCHANGED heap

DoMustDo ==
    \E err \in Values(heap) :
        /\ last' = [NoCall EXCEPT !.op = "MustDo", !.arg = err,
                                  !.out = MustDo(heap, err).out,
                                  !.panic = MustDo(heap, err).panic]
        /\ UNCHANGED heap

Next ==
    \/ DoNew
    \/ DoFrom
    \/ DoUnexpected
    \/ DoConstBecause
    \/ DoConstReason
    \/ DoExtraBecause
    \/ DoExtraReason
    \/ DoCause
    \/ DoError
    \/ DoIs
    \/ DoTest
    \/ DoString
    \/ DoUnwrap
    \/ DoMust
    \/ DoMustDo

Spec == Init /\ [][Next]_vars

TypeOK ==
    /\ \A i \in 1..Len(heap) :
          /\ heap[i].err \in Values(heap)
          /\ heap[i].cause \in Values(heap)
    /\ Len(heap) <= MaxNodes

(***************************************************************************)
(* Chains, described without the package's own walks: the nodes met by     *)
(* following cause pointers that point straight at a node.                 *)
(***************************************************************************)

RECURSIVE ChainOf(_, _)
ChainOf(h, i) ==
    IF h[i].cause.k = "node" THEN <<i>> \o ChainOf(h, h[i].cause.i) ELSE <<i>>

\* The cause of the last node of the chain: nil, a leaf error or a wrapper.
ChainEnd(h, i) == h[ChainOf(h, i)[Len(ChainOf(h, i))]].cause

ChainLast(h, i) == ChainOf(h, i)[Len(ChainOf(h, i))]

\* A chain as the claims describe it: it ends in a leaf error or in no cause.
ProperChain(h, i) == ChainEnd(h, i) \in Leaves \cup {Nil}

ChainMembers(h, i) ==
    ({h[ChainOf(h, i)[j]].err : j \in 1..Len(ChainOf(h, i))} \cup {ChainEnd(h, i)}) \ {Nil}

(***************************************************************************)
(* C1. For a chain of nodes ending in a leaf error or in no cause,         *)
(* errors.Is(err, t) and the top node's Is(t) are true exactly for the     *)
(* targets t (identities, plain external errors) that equal some node's    *)
(* self or the leaf cause, at any depth of the chain.                      *)
(***************************************************************************)
C1_IsMatchesExactlyTheChain ==
    (last.op = "Is" /\ ProperChain(heap, last.arg.i)) =>
        /\ last.is = (last.tgt \in ChainMembers(heap, last.arg.i))
        /\ last.isM = (last.tgt \in ChainMembers(heap, last.arg.i))

\* Is has matched the leaf cause below a second node, which no self equals.
C1_Witness ==
    /\ last.op = "Is"
    /\ Len(ChainOf(heap, last.arg.i)) >= 2
    /\ ChainEnd(heap, last.arg.i) = last.tgt
    /\ \A j \in 1..Len(heap) : heap[j].err # last.tgt
    /\ last.is /\ last.isM

(***************************************************************************)
(* C2. Cause(nil) is nil; Cause of an identity or a plain external error   *)
(* is that error; for a chain n1..nk of nodes, Cause(n1) is nk's cause     *)
(* when that is a leaf error and nk's self when nk has no cause.           *)
(***************************************************************************)
C2_CauseIsTheRootOfTheChain ==
    last.op = "Cause" =>
        /\ last.arg = Nil => last.out = Nil
        /\ last.arg \in Leaves => last.out = last.arg
        /\ (last.arg.k = "node" /\ ChainEnd(heap, last.arg.i) \in Leaves) =>
               last.out = ChainEnd(heap, last.arg.i)
        /\ (last.arg.k = "node" /\ ChainEnd(heap, last.arg.i) = Nil) =>
               last.out = heap[ChainLast(heap, last.arg.i)].err

\* L1.Because(L2.Because(L3)): Cause has returned L3 from below two nodes.
C2_Witness ==
    /\ last.op = "Cause"
    /\ last.arg.k = "node"
    /\ Len(ChainOf(heap, last.arg.i)) >= 2
    /\ ChainEnd(heap, last.arg.i) \in Identities
    /\ last.out = ChainEnd(heap, last.arg.i)
    /\ last.out # heap[last.arg.i].err
    /\ last.out # heap[ChainLast(heap, last.arg.i)].err

C4_TestExposesWhatWasBuilt ==
    /\ last.op = "ConstBecause" =>
          Test(heap, last.out) = [panic |-> "", out |-> last.arg, out2 |-> last.tgt]
    /\ last.op = "ConstReason" =>
          Test(heap, last.out) = [panic |-> "", out |-> last.arg, out2 |-> ConstError(last.txt)]
    /\ last.op = "New" =>
          Test(heap, last.out) = [panic |-> "", out |-> ConstError(last.txt), out2 |-> Nil]

\* An identity was given a cause that is itself a node with a cause.
C4_Witness ==
    /\ last.op = "ConstBecause"
    /\ last.tgt.k = "node"
    /\ heap[last.tgt.i].cause # Nil
    /\ Test(heap, last.out).out2 = last.tgt

(***************************************************************************)
(* C5. After any sequence of public operations every node has a non-nil    *)
(* self. From(nil) allocates a node whose self is nil, so this fails.      *)
(***************************************************************************)
C5_SelfIsNeverNil == \A i \in 1..Len(heap) : heap[i].err # Nil

(***************************************************************************)
(* C6. From(From(x)) has the same (self, cause) as From(x) for every x;    *)
(* when x is a node, From(x) is another instance with equal (self, cause), *)
(* and Because or Reason on the copy leave x's self and cause as they are. *)
(***************************************************************************)
C6_FromIsAnIdempotentCopy ==
    last.op = "From" =>
        LET again == From(heap, last.out) IN
        /\ again.heap[again.out.i] = heap[last.out.i]
        /\ last.arg.k = "node" =>
              /\ last.out # last.arg
              /\ heap[last.out.i] = heap[last.arg.i]
              /\ \A c \in Values(heap) :
                    ExtraBecause(heap, last.out.i, c).heap[last.arg.i] = heap[last.arg.i]
              /\ \A t \in Texts :
                    ExtraReason(heap, last.out.i, t).heap[last.arg.i] = heap[last.arg.i]

\* From has copied a node that has a cause.
C6_Witness ==
    /\ last.op = "From"
    /\ last.arg.k = "node"
    /\ heap[last.arg.i].cause # Nil
    /\ last.out # last.arg
    /\ heap[last.out.i] = heap[last.arg.i]

(***************************************************************************)
(* C7, as claimed. For every non-nil error other that is not itself a      *)
(* node, an external error whose Unwrap chain contains a node included,    *)
(* From(other) is a node whose self is other and whose cause is absent.    *)
(***************************************************************************)
C7_FromWrapsEveryNonNode ==
    (last.op = "From" /\ last.arg # Nil /\ last.arg.k # "node") =>
        heap[last.out.i] = ExtraError(last.arg, Nil)

(***************************************************************************)
(* C7, amended. For every non-nil error other in which errors.As finds no  *)
(* node (an identity, a plain external error), From(other) is a node whose *)
(* self is other and whose cause is absent; for an external error whose    *)
(* Unwrap chain contains a node, From returns a copy of that node's        *)
(* (self, cause).                                                          *)
(***************************************************************************)
C7_FromWrapsWhatHoldsNoNode ==
    last.op = "From" =>
        /\ last.arg \in Leaves => heap[last.out.i] = ExtraError(last.arg, Nil)
        /\ last.arg.k = "wrap" =>
              /\ heap[last.out.i] = heap[last.arg.i]
              /\ last.out # NodeV(last.arg.i)

\* From has wrapped a plain external error while a node already existed.
C7_Witness ==
    /\ last.op = "From"
    /\ last.arg.k = "std"
    /\ Len(heap) >= 2
    /\ heap[last.out.i] = ExtraError(last.arg, Nil)

(***************************************************************************)
(* C8. Cause is idempotent: Cause(Cause(err)) = Cause(err) for every err.  *)
(***************************************************************************)
C8_CauseIsIdempotent ==
    last.op = "Cause" => Cause(heap, last.out) = last.out

\* Cause has walked two nodes down to a non-nil root.
C8_Witness ==
    /\ last.op = "Cause"
    /\ last.arg.k = "node"
    /\ heap[last.arg.i].cause.k \in {"node", "wrap"}
    /\ last.out # Nil
    /\ Cause(heap, last.out) = last.out

(***************************************************************************)
(* C9, as claimed. Whenever the error Cause examines is not itself a node  *)
(* (nil, an identity, any external error, one whose Unwrap chain contains  *)
(* a node included), Cause returns it as-is without descending into it.    *)
(***************************************************************************)
C9_CauseStopsAtEveryNonNode ==
    last.op = "Cause" =>
        /\ last.arg.k # "node" => last.out = last.arg
        /\ (last.arg.k = "node" /\ ChainEnd(heap, last.arg.i) # Nil) =>
              last.out = ChainEnd(heap, last.arg.i)

(***************************************************************************)
(* C9, amended. Whenever errors.As finds no node in the error Cause        *)
(* examines (nil, an identity, a plain external error), Cause returns it   *)
(* as-is; an external error whose Unwrap chain contains a node is          *)
(* descended into: Cause goes on from that node and returns its root       *)
(* cause, never the wrapper.                                               *)
(***************************************************************************)
C9_CauseStopsWhereAsFindsNoNode ==
    last.op = "Cause" =>
        /\ last.arg \in Leaves \cup {Nil} => last.out = last.arg
        /\ last.arg.k = "wrap" =>
              /\ last.out = Cause(heap, NodeV(last.arg.i))
              /\ last.out.k # "wrap"
        /\ (last.arg.k = "node" /\ ChainEnd(heap, last.arg.i) \in Leaves) =>
              last.out = ChainEnd(heap, last.arg.i)
        /\ (last.arg.k = "node" /\ ChainEnd(heap, last.arg.i).k = "wrap") =>
              /\ last.out = Cause(heap, NodeV(ChainEnd(heap, last.arg.i).i))
              /\ last.out.k # "wrap"

\* Cause has met an external wrapper as a node's cause and gone through it.
C9_Witness ==
    /\ last.op = "Cause"
    /\ last.arg.k = "node"
    /\ heap[last.arg.i].cause.k = "wrap"
    /\ last.out # heap[last.arg.i].cause
    /\ last.out # Nil

(***************************************************************************)
(* C10. Nodes are immutable: every step of every public operation leaves   *)
(* the (self, cause) of every existing node unchanged, and Because and     *)
(* Reason return a node allocated by that very call, never the receiver.   *)
(***************************************************************************)
C10_NodesAreImmutable ==
    [][/\ Len(heap') >= Len(heap)
       /\ \A i \in 1..Len(heap) : heap'[i] = heap[i]
       /\ last'.op \in {"ConstBecause", "ConstReason", "ExtraBecause", "ExtraReason"} =>
             /\ Len(heap') = Len(heap) + 1
             /\ last'.out = NodeV(Len(heap'))
             /\ last'.out # last'.arg]_vars

\* Because on a node gave a new node the new cause; the receiver kept its own.
C10_Witness ==
    /\ last.op = "ExtraBecause"
    /\ last.out # last.arg
    /\ heap[last.out.i].cause = last.tgt
    /\ heap[last.arg.i].cause # last.tgt
    /\ heap[last.arg.i].cause # Nil

(***************************************************************************)
(* Helpers of the claims below.                                            *)
(***************************************************************************)

\* The heap as it was before the call that allocated its last node.
Pre == SubSeq(heap, 1, Len(heap) - 1)

RECURSIVE UnwrapWalk(_, _)
\* The values the generic walk visits: v, v.Unwrap(), ... up to nil.
UnwrapWalk(h, v) ==
    IF v = Nil THEN {}
    ELSE {v} \cup (IF HasUnwrap(v) THEN UnwrapWalk(h, Unwrap(h, v)) ELSE {})

\* The nodes heap[i] points at, through err or cause, directly or through
\* an external wrapper.
Refs(h, i) == {v.i : v \in {w \in {h[i].err, h[i].cause} : w.k \in {"node", "wrap"}}}

RECURSIVE ReachFrom(_, _, _)
\* The nodes reachable from the set S in at most n further links.
ReachFrom(h, S, n) ==
    IF n = 0 THEN S
    ELSE ReachFrom(h, S \cup UNION {Refs(h, j) : j \in S}, n - 1)

(***************************************************************************)
(* C11. e.Because(c) is a node with self = e.self and cause = c, for every *)
(* node e and every c, nil included: the old cause is replaced, so a       *)
(* target matched only through e's old cause is not matched by errors.Is   *)
(* on the result and is still matched on e.                                *)
(***************************************************************************)
C11_BecauseReplacesTheCause ==
    last.op = "ExtraBecause" =>
        LET e == heap[last.arg.i] IN
        /\ last.out.k = "node"
        /\ heap[last.out.i] = ExtraError(e.err, last.tgt)
        /\ \A t \in Leaves :
              ( /\ e.cause # Nil
                /\ ErrorsIs(heap, e.cause, t)
                /\ t # e.err
                /\ last.tgt = Nil \/ ~ErrorsIs(heap, last.tgt, t) ) =>
                    /\ ErrorsIs(heap, last.arg, t)
                    /\ ~ErrorsIs(heap, last.out, t)

\* Because(nil) on a node that had a cause: the result has none, and the old
\* cause is matched on the receiver only.
C11_Witness ==
    /\ last.op = "ExtraBecause"
    /\ last.tgt = Nil
    /\ heap[last.arg.i].cause \in Leaves
    /\ heap[last.arg.i].cause # heap[last.arg.i].err
    /\ heap[last.out.i].cause = Nil
    /\ ErrorsIs(heap, last.arg, heap[last.arg.i].cause)
    /\ ~ErrorsIs(heap, last.out, heap[last.arg.i].cause)

(***************************************************************************)
(* C12. Reason is Because with an identity: id.Reason(t) builds what       *)
(* id.Because(ConstError(t)) builds, and e.Reason(t) what                  *)
(* e.Because(ConstError(t)) builds.                                        *)
(***************************************************************************)
C12_ReasonIsBecauseOfAnIdentity ==
    /\ last.op = "ConstReason" =>
          [heap |-> heap, out |-> last.out] = ConstBecause(Pre, last.arg, ConstError(last.txt))
    /\ last.op = "ExtraReason" =>
          [heap |-> heap, out |-> last.out] = ExtraBecause(Pre, last.arg.i, ConstError(last.txt))

\* Reason on a node whose cause was another error than the text given.
C12_Witness ==
    /\ last.op = "ExtraReason"
    /\ heap[last.arg.i].cause \notin {Nil, ConstError(last.txt)}
    /\ heap[last.out.i] = ExtraError(heap[last.arg.i].err, ConstError(last.txt))

(***************************************************************************)
(* C13. Unwrap() of a node is its self; the generic walk from a node       *)
(* (repeated Unwrap) visits the node, its self and self's own chain only,  *)
(* never the cause, so a target matched through the cause is matched by    *)
(* the Is method.                                                          *)
(***************************************************************************)
C13_UnwrapIsSelfOnly ==
    last.op = "Unwrap" =>
        LET e    == heap[last.arg.i]
            walk == UnwrapWalk(heap, last.arg)
        IN  /\ last.out = e.err
            /\ walk = {last.arg} \cup UnwrapWalk(heap, e.err)
            /\ e.cause \in walk => e.cause \in UnwrapWalk(heap, e.err)
            /\ \A t \in Leaves :
                  (ErrorsIs(heap, last.arg, t) /\ t \notin walk) => ExtraIs(heap, last.arg.i, t)

\* Unwrap of a node whose cause is another error than its self.
C13_Witness ==
    /\ last.op = "Unwrap"
    /\ heap[last.arg.i].cause \notin {Nil, heap[last.arg.i].err}
    /\ last.out = heap[last.arg.i].err
    /\ heap[last.arg.i].cause \notin UnwrapWalk(heap, last.arg)
    /\ ErrorsIs(heap, last.arg, heap[last.arg.i].cause)

(***************************************************************************)
(* C14. Must(v, nil) returns v and MustDo(nil) returns; with a non-nil err *)
(* both panic, and the payload is Cause(err), the root cause, not err.     *)
(***************************************************************************)
C14_MustPanicsWithTheRootCause ==
    last.op \in {"Must", "MustDo"} =>
        /\ last.arg = Nil =>
              /\ last.panic = ""
              /\ last.op = "Must" => last.ret = last.txt
        /\ last.arg # Nil =>
              /\ last.panic = "payload"
              /\ last.out = Cause(heap, last.arg)
              /\ last.arg.k \in {"node", "wrap"} => last.out # last.arg
              /\ (last.arg.k = "node" /\ ChainEnd(heap, last.arg.i) \in Leaves) =>
                    last.out = ChainEnd(heap, last.arg.i)

\* Must has panicked with the leaf below two nodes.
C14_Witness ==
    /\ last.op = "Must"
    /\ last.arg.k = "node"
    /\ Len(ChainOf(heap, last.arg.i)) >= 2
    /\ ChainEnd(heap, last.arg.i) \in Leaves
    /\ last.panic = "payload"
    /\ last.out = ChainEnd(heap, last.arg.i)

(***************************************************************************)
(* C15. Test(err) returns the (self, cause) of the node err is or unwraps  *)
(* to; for nil, an identity or a plain external error it panics with       *)
(* "invalid error type" and never returns (err, nil).                      *)
(***************************************************************************)
C15_TestPanicsOnOtherErrors ==
    last.op = "Test" =>
        /\ last.arg.k \in {"node", "wrap"} =>
              /\ last.panic = ""
              /\ last.out = heap[last.arg.i].err
              /\ last.out2 = heap[last.arg.i].cause
        /\ last.arg \in Leaves \cup {Nil} =>
              /\ last.panic = "invalid error type"
              /\ ~(last.panic = "" /\ last.out = last.arg /\ last.out2 = Nil)

\* Test has panicked on an identity while nodes existed.
C15_Witness ==
    /\ last.op = "Test"
    /\ last.arg \in Identities
    /\ Len(heap) >= 1
    /\ last.panic = "invalid error type"

(***************************************************************************)
(* C16. Unexpected(cause) is, for every cause and for nil too, a non-nil   *)
(* node (ErrUnexpected, cause): what ErrUnexpected.Because(cause) builds;  *)
(* errors.Is(Unexpected(cause), ErrUnexpected) is true.                    *)
(***************************************************************************)
C16_UnexpectedIsStrict ==
    last.op = "Unexpected" =>
        /\ last.out.k = "node"
        /\ heap[last.out.i] = ExtraError(ErrUnexpected, last.arg)
        /\ [heap |-> heap, out |-> last.out] = ConstBecause(Pre, ErrUnexpected, last.arg)
        /\ ErrorsIs(heap, last.out, ErrUnexpected)

\* Unexpected(nil) has returned a node.
C16_Witness ==
    /\ last.op = "Unexpected"
    /\ last.arg = Nil
    /\ last.out.k = "node"
    /\ heap[last.out.i] = ExtraError(ErrUnexpected, Nil)

(***************************************************************************)
(* C18. The graph of nodes is acyclic: no node is reachable from itself by *)
(* cause or self links, be it through an external wrapper.                 *)
(***************************************************************************)
C18_HeapIsAcyclic ==
    \A i \in 1..Len(heap) : i \notin ReachFrom(heap, Refs(heap, i), Len(heap))

\* A node was given to its own Because as the cause: the result points at
\* the receiver, and nothing points back.
C18_Witness ==
    /\ last.op = "ExtraBecause"
    /\ last.tgt = last.arg
    /\ Refs(heap, last.out.i) = {last.arg.i}
    /\ last.out.i \notin ReachFrom(heap, {last.arg.i}, Len(heap))

(***************************************************************************)
(* The README's usage example (src/README.md), run against src/ex.go:      *)
(*   err := New(a).Because(From(std).Because(ConstError(l).Reason(r)))     *)
(*   Cause(err); err.Error()                                               *)
(* The calls happen in Go's evaluation order; the position in the program  *)
(* is the number of nodes allocated so far and the last call made.         *)
(***************************************************************************)

ReadmeTexts == {"xxx error", "ex const error", "why not?"}

ReadmeStdTexts == {"standard error", "io"}

\* New("xxx error")
ReadmeNew ==
    \E a \in ReadmeTexts :
        /\ Len(heap) = 0
        /\ Built("New", New(heap, a), Nil, a)

\* From(stdErr)
ReadmeFrom ==
    \E t \in ReadmeStdTexts :
        /\ Len(heap) = 1
        /\ Built("From", From(heap, StdError(t)), StdError(t), "")

\* labelErr.Reason("why not?")
ReadmeReason ==
    \E l \in ReadmeTexts, r \in ReadmeTexts :
        /\ Len(heap) = 2
        /\ Built("ConstReason", ConstReason(heap, ConstError(l), r), ConstError(l), r)

\* From(stdErr).Because(<the Reason node>)
ReadmeInnerBecause ==
    /\ Len(heap) = 3
    /\ heap' = ExtraBecause(heap, 2, NodeV(3)).heap
    /\ last' = [NoCall EXCEPT !.op = "ExtraBecause", !.arg = NodeV(2), !.tgt = NodeV(3),
                              !.out = ExtraBecause(heap, 2, NodeV(3)).out]

\* New("xxx error").Because(<the inner node>)
ReadmeOuterBecause ==
    /\ Len(heap) = 4
    /\ heap' = ExtraBecause(heap, 1, NodeV(4)).heap
    /\ last' = [NoCall EXCEPT !.op = "ExtraBecause", !.arg = NodeV(1), !.tgt = NodeV(4),
                              !.out = ExtraBecause(heap, 1, NodeV(4)).out]

\* cause := Cause(err)
ReadmeCause ==
    /\ Len(heap) = 5
    /\ last.op = "ExtraBecause"
    /\ last' = [NoCall EXCEPT !.op = "Cause", !.arg = NodeV(5), !.out = Cause(heap, NodeV(5))]
    /\ UNCHANGED heap

\* err.Error()
ReadmeError ==
    /\ Len(heap) = 5
    /\ last.op = "Cause"
    /\ last' = [NoCall EXCEPT !.op = "Error", !.arg = NodeV(5),
                              !.text = ExtraErrorText(heap, 5)]
    /\ UNCHANGED heap

NextReadme ==
    \/ ReadmeNew
    \/ ReadmeFrom
    \/ ReadmeReason
    \/ ReadmeInnerBecause
    \/ ReadmeOuterBecause
    \/ ReadmeCause
    \/ ReadmeError

SpecReadme == Init /\ [][NextReadme]_vars

XError(text) == ConstError(text)

XErrUnexpected == XError("unexpected")

ErrCritical == XError("critical")

ErrUnknown == XError("unknown")

\* The errors callers pass in: their own identities and external errors.
XLeaves == {XError(t) : t \in Texts} \cup {StdError(t) : t \in StdTexts}

XValues(h) ==
    {Nil} \cup XLeaves \cup {NodeV(i) : i \in 1..Len(h)} \cup {WrapV(i) : i \in 1..Len(h)}

\* A return of nil: nothing is allocated.
NoError(h) == [heap |-> h, out |-> Nil]

XConv(h, err) ==
    IF err = Nil THEN NoError(h)
    ELSE LET xer == AsExtra(h, err) IN
         IF xer # 0 THEN Alloc(h, h[xer].err, h[xer].cause)
         ELSE Alloc(h, err, Nil)

XNew(h, text) == IF text = "" THEN NoError(h) ELSE Alloc(h, XError(text), Nil)

\* A variant of Expose that reports no cause.
XExposeDropsCause(h, err) ==
    LET xer == AsExtra(h, err) IN
    IF xer = 0 THEN [out |-> err, out2 |-> Nil]
    ELSE [out |-> h[xer].err, out2 |-> Nil]

\* Expose(err): the pair (field out, field out2).
XExpose(h, err) ==
    LET xer == AsExtra(h, err) IN
    IF xer = 0 THEN [out |-> err, out2 |-> Nil]
    ELSE [out |-> h[xer].err, out2 |-> h[xer].cause]

\* A variant of Unexpected that wraps an absent cause too.
XUnexpectedAlways(h, cause) == Alloc(h, XErrUnexpected, cause)

XUnexpected(h, cause) ==
    IF cause = Nil THEN NoError(h) ELSE Alloc(h, XErrUnexpected, cause)

XUnknown(h, cause) ==
    IF cause = Nil THEN NoError(h) ELSE Alloc(h, ErrUnknown, cause)

\* A variant of Critical that returns its node instead of panicking.
XCriticalReturns(h, cause) ==
    IF cause = Nil THEN [heap |-> h, out |-> Nil, panic |-> ""]
    ELSE [heap |-> Alloc(h, ErrCritical, cause).heap,
          out |-> Alloc(h, ErrCritical, cause).out, panic |-> ""]

\* Critical(cause): nil for nil; otherwise it panics and the payload (field
\* out) is the node allocated for it.
XCritical(h, cause) ==
    IF cause = Nil THEN [heap |-> h, out |-> Nil, panic |-> ""]
    ELSE [heap |-> Alloc(h, ErrCritical, cause).heap,
          out |-> Alloc(h, ErrCritical, cause).out, panic |-> "payload"]

\* Panic(err) is Critical(err) with the result dropped.
XPanic(h, err) == XCritical(h, err)

ErrorBecause(h, c, cause) == Alloc(h, c, cause)

ErrorReason(h, c, text) == Alloc(h, c, XError(text))

XBecause(h, e, cause) == Alloc(h, h[e].err, cause)

XReason(h, e, text) == Alloc(h, h[e].err, XError(text))

RECURSIVE XErrText(_, _)
RECURSIVE XFlatten(_, _)

\* A variant of Error() that renders self and the root cause only.
XErrorTextShallow(h, i) ==
    XErrText(h, h[i].err)
    \o (IF Cause(h, h[i].cause) # Nil THEN <<": ">> \o XErrText(h, Cause(h, h[i].cause))
        ELSE <<>>)

\* (*xError).Error of heap[i]: the text of error, then the loop over the
\* causes. A nil error field would be a nil dereference.
XErrorText(h, i) ==
    IF h[i].err = Nil THEN <<"nil dereference">>
    ELSE XErrText(h, h[i].err) \o XFlatten(h, h[i].cause)

\* The loop of Error(), one unfolding per iteration.
XFlatten(h, cause) ==
    IF cause = Nil THEN <<>>
    ELSE LET xer == AsExtra(h, cause) IN
         IF xer # 0
         THEN (IF h[xer].err # Nil THEN <<": ">> \o XErrText(h, h[xer].err) ELSE <<>>)
              \o XFlatten(h, h[xer].cause)
         ELSE <<": ">> \o XErrText(h, cause)

\* err.Error() of any non-nil error value of the variant.
XErrText(h, v) ==
    IF v.k \in {"const", "std"} THEN <<v.t>>
    ELSE IF v.k = "wrap" THEN <<"wrap: ">> \o XErrText(h, NodeV(v.i))
    ELSE IF v.k = "node" THEN XErrorText(h, v.i)
    ELSE <<>>

\* A call that may allocate a node: the heap stays within its bound.
XBuilt(name, r, a, t, s) ==
    /\ Len(r.heap) <= MaxNodes
    /\ heap' = r.heap
    /\ last' = [NoCall EXCEPT !.op = name, !.arg = a, !.tgt = t, !.txt = s, !.out = r.out]

DoXConv == \E err \in XValues(heap) : XBuilt("XConv", XConv(heap, err), err, Nil, "")

DoXNew == \E text \in Texts \cup {""} : XBuilt("XNew", XNew(heap, text), Nil, Nil, text)

DoXUnexpected ==
    \E cause \in XValues(heap) :
        XBuilt("XUnexpected", XUnexpected(heap, cause), cause, Nil, "")

DoXUnknown ==
    \E cause \in XValues(heap) : XBuilt("XUnknown", XUnknown(heap, cause), cause, Nil, "")

DoXCritical ==
    \E cause \in XValues(heap) :
        LET r == XCritical(heap, cause) IN
        /\ Len(r.heap) <= MaxNodes
        /\ heap' = r.heap
        /\ last' = [NoCall EXCEPT !.op = "XCritical", !.arg = cause, !.out = r.out,
                                  !.panic = r.panic]

DoXPanic ==
    \E err \in XValues(heap) :
        LET r == XPanic(heap, err) IN
        /\ Len(r.heap) <= MaxNodes
        /\ heap' = r.heap
        /\ last' = [NoCall EXCEPT !.op = "XPanic", !.arg = err, !.out = r.out,
                                  !.panic = r.panic]

DoXSkip ==
    \E err \in XValues(heap) :
        /\ last' = [NoCall EXCEPT !.op = "XSkip", !.arg = err]
        /\ UNCHANGED heap

DoErrorBecause ==
    \E t \in Texts, cause \in XValues(heap) :
        XBuilt("ErrorBecause", ErrorBecause(heap, XError(t), cause), XError(t), cause, "")

DoErrorReason ==
    \E t \in Texts, text \in Texts :
        XBuilt("ErrorReason", ErrorReason(heap, XError(t), text), XError(t), Nil, text)

DoXBecause ==
    \E e \in 1..Len(heap), cause \in XValues(heap) :
        XBuilt("XBecause", XBecause(heap, e, cause), NodeV(e), cause, "")

DoXReason ==
    \E e \in 1..Len(heap), text \in Texts :
        XBuilt("XReason", XReason(heap, e, text), NodeV(e), Nil, text)

DoXError ==
    \E e \in 1..Len(heap) :
        /\ last' = [NoCall EXCEPT !.op = "XError", !.arg = NodeV(e),
                                  !.text = XErrorText(heap, e)]
        /\ UNCHANGED heap

DoXExpose ==
    \E err \in XValues(heap) :
        /\ last' = [NoCall EXCEPT !.op = "XExpose", !.arg = err,
                                  !.out = XExpose(heap, err).out,
                                  !.out2 = XExpose(heap, err).out2]
        /\ UNCHANGED heap

NextFlat ==
    \/ DoXConv
    \/ DoXNew
    \/ DoXUnexpected
    \/ DoXUnknown
    \/ DoXCritical
    \/ DoXPanic
    \/ DoXSkip
    \/ DoErrorBecause
    \/ DoErrorReason
    \/ DoXBecause
    \/ DoXReason
    \/ DoXError
    \/ DoXExpose

SpecFlat == Init /\ [][NextFlat]_vars

RECURSIVE JoinSelves(_, _, _)
\* ": " and the self of every node of the chain ch from its j-th on.
JoinSelves(h, ch, j) ==
    IF j > Len(ch) THEN <<>>
    ELSE <<": ", h[ch[j]].err.t>> \o JoinSelves(h, ch, j + 1)

\* self(n1): self(n2): ... : self(nk) of the chain that starts at node i.
ChainSelves(h, i) == <<h[i].err.t>> \o JoinSelves(h, ChainOf(h, i), 2)

(***************************************************************************)
(* C19. In the flattening variant, for a chain n1..nk of nodes ending in a *)
(* leaf error L or in no cause, Error() of n1 is self(n1), ..., self(nk),  *)
(* L joined by ": ", each once and in chain order, at every depth.         *)
(***************************************************************************)
C19_ErrorJoinsTheChainInOrder ==
    (last.op = "XError" /\ ProperChain(heap, last.arg.i)) =>
        last.text = ChainSelves(heap, last.arg.i)
                    \o (IF ChainEnd(heap, last.arg.i) = Nil THEN <<>>
                        ELSE <<": ", ChainEnd(heap, last.arg.i).t>>)

\* Error() of a chain of two nodes with different selves and a third leaf.
C19_Witness ==
    /\ last.op = "XError"
    /\ Len(ChainOf(heap, last.arg.i)) >= 2
    /\ ChainEnd(heap, last.arg.i) \in XLeaves
    /\ Cardinality({heap[last.arg.i].err, heap[heap[last.arg.i].cause.i].err,
                    ChainEnd(heap, last.arg.i)}) = 3
    /\ last.text = <<heap[last.arg.i].err.t, ": ", heap[heap[last.arg.i].cause.i].err.t,
                     ": ", ChainEnd(heap, last.arg.i).t>>

(***************************************************************************)
(* C20, as claimed. Error() stops at the first cause that is not itself a  *)
(* node, an external error whose Unwrap chain contains a node included,    *)
(* and appends that cause's own Error() text unmodified as the last        *)
(* segment, without descending into it.                                    *)
(***************************************************************************)
C20_ErrorStopsAtEveryNonNode ==
    (last.op = "XError" /\ ChainEnd(heap, last.arg.i) # Nil) =>
        last.text = ChainSelves(heap, last.arg.i)
                    \o <<": ">> \o XErrText(heap, ChainEnd(heap, last.arg.i))

(***************************************************************************)
(* C20, amended. Error() stops at the first cause in which errors.As finds *)
(* no node (an identity, a plain external error) and appends its text      *)
(* unmodified as the last segment; an external error whose Unwrap chain    *)
(* contains a node is descended into: the walk goes on with that node, so  *)
(* its self and its causes are appended and the wrapper's own text is not. *)
(***************************************************************************)
C20_ErrorStopsWhereAsFindsNoNode ==
    last.op = "XError" =>
        /\ ChainEnd(heap, last.arg.i) \in Leaves =>
              last.text = ChainSelves(heap, last.arg.i)
                          \o <<": ", ChainEnd(heap, last.arg.i).t>>
        /\ ChainEnd(heap, last.arg.i).k = "wrap" =>
              /\ last.text = ChainSelves(heap, last.arg.i)
                             \o <<": ">> \o XErrorText(heap, ChainEnd(heap, last.arg.i).i)
              /\ \A j \in 1..Len(last.text) : last.text[j] # "wrap: "

\* Error() of a node whose cause is an external wrapper of a node.
C20_Witness ==
    /\ last.op = "XError"
    /\ heap[last.arg.i].cause.k = "wrap"
    /\ last.text = <<heap[last.arg.i].err.t>> \o <<": ">>
                    \o XErrorText(heap, heap[last.arg.i].cause.i)

(***************************************************************************)
(* C21. In the flattening variant, wrapping no error yields no error:      *)
(* Conv(nil), Unexpected(nil), Unknown(nil) and Critical(nil) return nil   *)
(* and Panic(nil) returns normally; for a non-nil cause Unexpected and     *)
(* Unknown return the node (ErrUnexpected, cause) / (ErrUnknown, cause).   *)
(***************************************************************************)
C21_NoErrorYieldsNoError ==
    /\ (last.op \in {"XConv", "XUnexpected", "XUnknown", "XCritical", "XPanic"}
        /\ last.arg = Nil) =>
            (last.out = Nil /\ last.panic = "")
    /\ (last.op = "XUnexpected" /\ last.arg # Nil) =>
            (last.out.k = "node" /\ heap[last.out.i] = ExtraError(XErrUnexpected, last.arg))
    /\ (last.op = "XUnknown" /\ last.arg # Nil) =>
            (last.out.k = "node" /\ heap[last.out.i] = ExtraError(ErrUnknown, last.arg))

\* Unexpected(nil) called when nodes exist: it returns nil.
C21_Witness ==
    /\ last.op = "XUnexpected"
    /\ last.arg = Nil
    /\ last.out = Nil
    /\ Len(heap) >= 1

(***************************************************************************)
(* C22. In the flattening variant, Expose never aborts: for an xError      *)
(* (an error in which errors.As finds a node) it returns the node's        *)
(* (self, cause), for any plain error err it returns (err, nil), and for   *)
(* nil it returns (nil, nil).                                              *)
(***************************************************************************)
C22_ExposeIsTotal ==
    last.op = "XExpose" =>
        /\ last.panic = ""
        /\ last.arg.k = "node" =>
              (last.out = heap[last.arg.i].err /\ last.out2 = heap[last.arg.i].cause)
        /\ last.arg.k = "wrap" =>
              (last.out = heap[last.arg.i].err /\ last.out2 = heap[last.arg.i].cause)
        /\ last.arg \in XLeaves => (last.out = last.arg /\ last.out2 = Nil)
        /\ last.arg = Nil => (last.out = Nil /\ last.out2 = Nil)

\* Expose of a node that has a cause returns both fields.
C22_Witness ==
    /\ last.op = "XExpose"
    /\ last.arg.k = "node"
    /\ last.out2 # Nil
    /\ last.out2 = heap[last.arg.i].cause
    /\ last.out = heap[last.arg.i].err

(***************************************************************************)
(* C23, as claimed. In the flattening variant, Critical(cause) and         *)
(* Panic(err) abort if and only if their argument is non-nil; the payload  *)
(* is a node whose self is ErrCritical and whose cause is the argument,    *)
(* and it renders as "critical: " followed by the argument's own text.     *)
(***************************************************************************)
C23_CriticalPanicsWithCauseText ==
    last.op \in {"XCritical", "XPanic"} =>
        /\ (last.panic = "payload") <=> (last.arg # Nil)
        /\ last.arg # Nil =>
              /\ last.out.k = "node"
              /\ heap[last.out.i] = ExtraError(ErrCritical, last.arg)
              /\ XErrorText(heap, last.out.i)
                   = <<"critical", ": ">> \o XErrText(heap, last.arg)

(***************************************************************************)
(* C23, amended. Critical(cause) and Panic(err) abort if and only if their *)
(* argument is non-nil; the payload is a node whose self is ErrCritical    *)
(* and whose cause is the argument. It renders as "critical: " followed by *)
(* the argument's own text when the argument is a node or an error in      *)
(* which errors.As finds no node; for an external error that wraps a node  *)
(* it renders as "critical: " followed by the wrapped node's text.         *)
(***************************************************************************)
C23_CriticalPanicsWithFlattenedCause ==
    last.op \in {"XCritical", "XPanic"} =>
        /\ (last.panic = "payload") <=> (last.arg # Nil)
        /\ last.arg = Nil => last.out = Nil
        /\ last.arg # Nil =>
              /\ last.out.k = "node"
              /\ heap[last.out.i] = ExtraError(ErrCritical, last.arg)
              /\ XErrorText(heap, last.out.i)
                   = <<"critical", ": ">>
                     \o (IF last.arg.k = "wrap" THEN XErrorText(heap, last.arg.i)
                         ELSE XErrText(heap, last.arg))

\* Panic of an external error that wraps a node: the payload's text does
\* not hold the wrapper's own text.
C23_Witness ==
    /\ last.op = "XPanic"
    /\ last.arg.k = "wrap"
    /\ last.panic = "payload"
    /\ heap[last.out.i] = ExtraError(ErrCritical, last.arg)
    /\ XErrorText(heap, last.out.i) # <<"critical", ": ">> \o XErrText(heap, last.arg)

(***************************************************************************)
(* C24, as claimed. In the flattening variant, the nil-cause policy is     *)
(* the same for every operation that attaches a cause: Error.Because(nil)  *)
(* and xError.Because(nil) return nil as Unexpected(nil), Unknown(nil) and *)
(* Critical(nil) do, and each wrapper W with fixed identity I returns for  *)
(* nil what I.Because(nil) returns.                                        *)
(***************************************************************************)
C24_NilCausePolicyIsConsistent ==
    (last.op \in {"ErrorBecause", "XBecause", "XUnexpected", "XUnknown", "XCritical"}
     /\ (IF last.op \in {"ErrorBecause", "XBecause"} THEN last.tgt ELSE last.arg) = Nil
     /\ last.txt = "") =>
        /\ last.out = Nil
        /\ last.op = "XUnexpected" =>
              (ErrorBecause(heap, XErrUnexpected, last.arg).out = Nil)
        /\ last.op = "XUnknown" =>
              (ErrorBecause(heap, ErrUnknown, last.arg).out = Nil)
        /\ last.op = "XCritical" =>
              (ErrorBecause(heap, ErrCritical, last.arg).out = Nil)

(***************************************************************************)
(* C25, as claimed. For every node with non-nil self, Error() appends the  *)
(* parenthesised root-cause suffix exactly when the node has a cause: the  *)
(* suffix is present if and only if the node's cause is not nil, for any   *)
(* cause value, a node built by From or New included.                      *)
(***************************************************************************)
C25_SuffixIffCause ==
    (last.op = "Error" /\ heap[last.arg.i].err # Nil) =>
        ((Len(last.text) > Len(ErrText(heap, heap[last.arg.i].err)))
            <=> (heap[last.arg.i].cause # Nil))

(***************************************************************************)
(* C26, as claimed. Whenever Must or MustDo is called with a non-nil err   *)
(* (the results of From and New and the zero node included), it panics     *)
(* and the payload is a non-nil error: the original error or its root      *)
(* cause, never nil.                                                       *)
(***************************************************************************)
C26_MustPayloadIsNeverNil ==
    (last.op \in {"Must", "MustDo"} /\ last.arg # Nil) =>
        /\ last.panic = "payload"
        /\ last.out # Nil
        /\ last.out \in {last.arg, Cause(heap, last.arg)}

\* The members of the JSON object under one key.
JsonValues(json, key) == {m[2] : m \in {n \in json : n[1] = key}}

(***************************************************************************)
(* C27. String() is a JSON object with the key "error" (value: the text    *)
(* of self) if and only if self is non-nil, and the key "cause" (value:    *)
(* the text of the immediate cause) if and only if cause is non-nil. The   *)
(* cause value is the immediate cause's own rendering, "self (root)" for   *)
(* a cause that is a node with a cause, not the root cause alone; the      *)
(* zero node renders as {}.                                                *)
(***************************************************************************)
C27_StringHasSelfAndImmediateCause ==
    last.op = "String" =>
        LET n == heap[last.arg.i] IN
        /\ \A m \in last.json : m[1] \in {"error", "cause"}
        /\ JsonValues(last.json, "error")
             = (IF n.err = Nil THEN {} ELSE {ErrText(heap, n.err)})
        /\ JsonValues(last.json, "cause")
             = (IF n.cause = Nil THEN {} ELSE {ErrText(heap, n.cause)})
        /\ (n.cause.k = "node" /\ ProperChain(heap, n.cause.i)
              /\ heap[n.cause.i].err # Nil /\ Cause(heap, n.cause) # Nil
              /\ heap[n.cause.i].cause # Nil) =>
              JsonValues(last.json, "cause")
                = {<<heap[n.cause.i].err.t, " (", Cause(heap, n.cause).t, ")">>}
        /\ (n.err = Nil /\ n.cause = Nil) => last.json = {}

\* String() of a node whose cause is a node with a different root cause:
\* the "cause" member holds both texts.
C27_Witness ==
    /\ last.op = "String"
    /\ heap[last.arg.i].err # Nil
    /\ heap[last.arg.i].cause.k = "node"
    /\ heap[heap[last.arg.i].cause.i].cause \in Leaves
    /\ heap[heap[last.arg.i].cause.i].err \in Leaves
    /\ heap[heap[last.arg.i].cause.i].err # heap[heap[last.arg.i].cause.i].cause
    /\ JsonValues(last.json, "cause")
         = {<<heap[heap[last.arg.i].cause.i].err.t, " (",
              heap[heap[last.arg.i].cause.i].cause.t, ")">>}

(***************************************************************************)
(* C28. For every node constructed by public operations, self is never a   *)
(* node and never has a node on its Unwrap chain: From copies the fields   *)
(* of a node it finds instead of nesting it as self, and every other       *)
(* constructor uses an identity as self.                                   *)
(***************************************************************************)
C28_SelfHoldsNoNode ==
    \A i \in 1..Len(heap) :
        /\ heap[i].err.k \notin {"node", "wrap"}
        /\ heap[i].err # Nil => AsExtra(heap, heap[i].err) = 0

\* From of an external wrapper of a node: the result's self is the wrapped
\* node's self, an identity or a plain error.
C28_Witness ==
    /\ last.op = "From"
    /\ last.arg.k = "wrap"
    /\ heap[last.out.i].err \in Leaves
    /\ heap[last.out.i].err = heap[last.arg.i].err

(***************************************************************************)
(* The walks of src/ex.go step by step: the loop of Cause one iteration at *)
(* a time (alone, and as Error() calls it), and errors.Is as the stack of  *)
(* its pending comparisons. The errors are those of any caller, an         *)
(* external error of a non-comparable type included. While a call runs,    *)
(* nothing else does: the package has no concurrency of its own.           *)
(***************************************************************************)

WalkLeaves == {ConstError(t) : t \in Texts} \cup {StdError(t) : t \in StdTexts} \cup {SliceError}

WalkValues(h) ==
    {Nil} \cup WalkLeaves \cup {NodeV(i) : i \in 1..Len(h)} \cup {WrapV(i) : i \in 1..Len(h)}

\* A call is in progress.
Running == last.op \in {"Cause.loop", "Error.format", "Is.loop"}

WalkFrom ==
    \E other \in WalkValues(heap) :
        /\ ~Running
        /\ Len(heap) < MaxNodes
        /\ Built("From", From(heap, other), other, "")

WalkBecause ==
    \E c \in {ConstError(t) : t \in Texts}, cause \in WalkValues(heap) :
        /\ ~Running
        /\ Len(heap) < MaxNodes
        /\ heap' = ConstBecause(heap, c, cause).heap
        /\ last' = [NoCall EXCEPT !.op = "ConstBecause", !.arg = c, !.tgt = cause,
                                  !.out = ConstBecause(heap, c, cause).out]

\* Cause(err) is entered: the loop variable err (field cur) is the argument.
CauseCall ==
    \E err \in WalkValues(heap) :
        /\ ~Running
        /\ last' = [NoCall EXCEPT !.op = "Cause.loop", !.arg = err, !.cur = err]
        /\ UNCHANGED heap

\* Error() of a node is entered: "" for a nil self, otherwise Cause(e.cause)
\* is called and its result awaited (field txt).
ErrorCall ==
    \E e \in 1..Len(heap) :
        /\ ~Running
        /\ last' = IF heap[e].err = Nil
                   THEN [NoCall EXCEPT !.op = "Error", !.arg = NodeV(e)]
                   ELSE [NoCall EXCEPT !.op = "Cause.loop", !.arg = NodeV(e),
                                       !.cur = heap[e].cause, !.txt = "Error"]
        /\ UNCHANGED heap

\* One iteration that goes round: errors.As finds xer, xer.cause is not nil,
\* err = xer.cause. Field walk lists the nodes the iterations examined.
CauseIterate ==
    /\ last.op = "Cause.loop"
    /\ last.cur # Nil
    /\ AsExtra(heap, last.cur) # 0
    /\ heap[AsExtra(heap, last.cur)].cause # Nil
    /\ last' = [last EXCEPT !.cur = heap[AsExtra(heap, last.cur)].cause,
                            !.walk = Append(last.walk, AsExtra(heap, last.cur))]
    /\ UNCHANGED heap

\* The loop is left: err is nil, or errors.As fails (break, return err), or
\* xer.cause is nil (return xer.err). The result goes to the caller or to
\* Error().
CauseReturn ==
    /\ last.op = "Cause.loop"
    /\ IF last.cur = Nil \/ AsExtra(heap, last.cur) = 0 THEN TRUE
       ELSE heap[AsExtra(heap, last.cur)].cause = Nil
    /\ last' = [last EXCEPT
                  !.op = IF last.txt = "Error" THEN "Error.format" ELSE "Cause",
                  !.out = IF last.cur = Nil \/ AsExtra(heap, last.cur) = 0 THEN last.cur
                          ELSE heap[AsExtra(heap, last.cur)].err,
                  !.walk = IF last.cur = Nil \/ AsExtra(heap, last.cur) = 0 THEN last.walk
                           ELSE Append(last.walk, AsExtra(heap, last.cur))]
    /\ UNCHANGED heap

\* Error() after Cause returned: the self's text and the suffix.
ErrorFormat ==
    /\ last.op = "Error.format"
    /\ last' = [last EXCEPT
                  !.op = "Error",
                  !.text = ErrText(heap, heap[last.arg.i].err)
                           \o (IF last.out # Nil
                               THEN <<" (">> \o ErrText(heap, last.out) \o <<")">>
                               ELSE <<>>)]
    /\ UNCHANGED heap

\* errors.Is(err, target) with both non-nil is entered: one comparison is
\* pending, that of err.
IsCall ==
    \E e \in 1..Len(heap), target \in WalkLeaves :
        /\ ~Running
        /\ last' = [NoCall EXCEPT !.op = "Is.loop", !.arg = NodeV(e), !.tgt = target,
                                  !.stack = <<NodeV(e)>>]
        /\ UNCHANGED heap

\* What examining v leaves to examine, in order: for a node its Is method
\* (errors.Is of err, then of a non-nil cause) and then its Unwrap, for an
\* external wrapper its Unwrap, for anything else nothing.
IsPending(h, v) ==
    IF v.k = "node"
    THEN <<h[v.i].err>> \o (IF h[v.i].cause # Nil THEN <<h[v.i].cause>> ELSE <<>>)
         \o <<Unwrap(h, v)>>
    ELSE IF v.k = "wrap" THEN <<Unwrap(h, v)>>
    ELSE <<>>

\* The pending comparison on top is made: a match ends the call with true
\* (every caller on the way up is an "or"), otherwise what it leaves to
\* examine replaces it.
IsStep ==
    /\ last.op = "Is.loop"
    /\ Len(last.stack) > 0
    /\ LET v == Head(last.stack) IN
       last' = IF v # Nil /\ Comparable(last.tgt) /\ v = last.tgt
               THEN [last EXCEPT !.op = "Is", !.is = TRUE, !.stack = <<>>,
                                 !.walk = Append(last.walk, v)]
               ELSE [last EXCEPT !.stack = (IF v = Nil THEN <<>> ELSE IsPending(heap, v))
                                           \o Tail(last.stack),
                                 !.walk = Append(last.walk, v)]
    /\ UNCHANGED heap

\* Nothing is left to compare: false.
IsReturn ==
    /\ last.op = "Is.loop"
    /\ Len(last.stack) = 0
    /\ last' = [last EXCEPT !.op = "Is", !.is = FALSE]
    /\ UNCHANGED heap

NextWalk ==
    \/ WalkFrom
    \/ WalkBecause
    \/ CauseCall
    \/ ErrorCall
    \/ CauseIterate
    \/ CauseReturn
    \/ ErrorFormat
    \/ IsCall
    \/ IsStep
    \/ IsReturn

\* A call that has been entered keeps running: each of its steps is taken
\* when it stays possible.
SpecWalk ==
    /\ Init
    /\ [][NextWalk]_vars
    /\ WF_vars(CauseIterate)
    /\ WF_vars(CauseReturn)
    /\ WF_vars(ErrorFormat)
    /\ WF_vars(IsStep)
    /\ WF_vars(IsReturn)

WalkStart == IF last.txt = "Error" THEN heap[last.arg.i].cause ELSE last.arg

\* The iterations of the loop of Cause so far: no node is examined twice,
\* the first node examined is the one errors.As finds in the starting error,
\* each further one is found in the cause of the one before, and the loop
\* variable is the cause of the last one.
CauseWalkAdvances ==
    last.op \in {"Cause.loop", "Cause", "Error.format"} =>
        /\ \A j, k \in 1..Len(last.walk) : last.walk[j] = last.walk[k] => j = k
        /\ Len(last.walk) <= Len(heap)
        /\ \A j \in 1..Len(last.walk) :
              last.walk[j] = AsExtra(heap, IF j = 1 THEN WalkStart
                                           ELSE heap[last.walk[j - 1]].cause)
        /\ last.op = "Cause.loop" =>
              last.cur = (IF Len(last.walk) = 0 THEN WalkStart
                          ELSE heap[last.walk[Len(last.walk)]].cause)

\* errors.Is makes a bounded number of comparisons: a node is examined at
\* most once for every path of err and cause links that leads to it.
IsWalkIsBounded ==
    last.op \in {"Is.loop", "Is"} => Len(last.walk) <= 5 * (3 ^ Len(heap))

(***************************************************************************)
(* C30. Cause(err), Error() and errors.Is(err, t) terminate for every      *)
(* error built by public operations: every call that has been entered      *)
(* returns. The loop of Cause runs at most once per node on the cause      *)
(* chain, and each iteration advances to the cause of the node it          *)
(* examined.                                                               *)
(***************************************************************************)
C30_WalksTerminate ==
    /\ [](CauseWalkAdvances /\ IsWalkIsBounded)
    /\ (last.op = "Cause.loop") ~> (last.op \in {"Cause", "Error"})
    /\ (last.op = "Is.loop") ~> (last.op = "Is")

\* Cause has returned after two iterations, over two nodes and the external
\* wrapper between them.
C30_Witness ==
    /\ last.op = "Cause"
    /\ Len(last.walk) = 2
    /\ heap[last.walk[1]].cause.k = "wrap"
    /\ last.out = Cause(heap, last.arg)

====
